---- MODULE Spec2Model ----
(***************************************************************************)
(* A model of nc::QuadTree<T, _Capacity> (src/quadtree.h) with T = int.    *)
(* The tree is a function from paths to nodes: the root is <<>> and        *)
(* children[i] of the node at p is at Append(p, i), i in 0..3.             *)
(***************************************************************************)
EXTENDS Integers, Sequences, FiniteSets, TLC

\* Largest _Capacity the model instantiates the template with.
MaxCapacity == 2
\* Ids the caller assigns are 1..MaxId, so at most MaxId objects are live.
MaxId == 3
\* The caller makes at most MaxCalls calls of insert and remove.
MaxCalls == 4

kChildren == 4

VARIABLES
    capacity,   \* the template parameter _Capacity of this instantiation
    tree,       \* path -> node, the nodes reachable from the root
    op,         \* the last public call on the root: its arguments and results
    phase,      \* history of the calls: "insert", "remove" or "mixed"
    calls       \* how many calls of insert and remove were made

vars == <<capacity, tree, op, phase, calls>>

----------------------------------------------------------------------------
(* QuadTreeAABB<T> *)

\* T = int: operator / truncates toward zero.
Div2(n) == IF n >= 0 THEN n \div 2 ELSE -((-n) \div 2)

\* std::min(a, b) is (b < a) ? b : a, std::max(a, b) is (a < b) ? b : a.
Min(a, b) == IF b < a THEN b ELSE a
Max(a, b) == IF a < b THEN b ELSE a

set_dimensions(b) ==
    [b EXCEPT !.width = b.bottom - b.top, !.height = b.right - b.left]

set_center(b) ==
    [b EXCEPT !.x = Div2(b.left + b.right), !.y = Div2(b.top + b.bottom)]

verify(b) == (b.left < b.right) /\ (b.top < b.bottom)

intersects(a, b) ==
    /\ a.left < b.right
    /\ a.right > b.left
    /\ a.top < b.bottom
    /\ a.bottom > b.top

\* A box as a caller builds it: the four edges, then set_center and
\* set_dimensions.
AABB(l, t, r, b) ==
    set_dimensions(set_center(
        [left |-> l, top |-> t, right |-> r, bottom |-> b,
         x |-> 0, y |-> 0, width |-> 0, height |-> 0]))

\* a contains b, edges included.
Covers(a, b) ==
    /\ a.left <= b.left
    /\ a.top <= b.top
    /\ a.right >= b.right
    /\ a.bottom >= b.bottom

----------------------------------------------------------------------------
(* Inputs *)

RootBounds == AABB(0, 0, 4, 4)

\* Valid object bounds: inside one quadrant, across the centre of the root,
\* and across the left edge of the root.
Boxes ==
    { AABB(0, 0, 1, 1), AABB(1, 1, 3, 3), AABB(-1, 1, 1, 2), AABB(3, 3, 4, 4) }

\* Query regions: the object bounds, a region that contains them all, and a
\* region left of the root.
Regions ==
    Boxes \cup { AABB(-1, 0, 4, 4), AABB(-1, 1, 0, 2) }

Ids == 1 .. MaxId

\* The payload pointer the caller attaches to the object with a given id.
UserData(id) == 100 + id

Objects ==
    { [bounds |-> b, user_data |-> UserData(i), id |-> i] : b \in Boxes, i \in Ids }

\* What a max_bounds that was never assigned may hold: a box that no min/max
\* with it changes, or a box that covers every coordinate in use.
Garbage ==
    { [left |-> 9, top |-> 9, right |-> -9, bottom |-> -9,
       x |-> 0, y |-> 0, width |-> 0, height |-> 0],
      [left |-> -9, top |-> -9, right |-> 9, bottom |-> 9,
       x |-> 0, y |-> 0, width |-> 0, height |-> 0] }

----------------------------------------------------------------------------
(* QuadTreeObject<T> and the node *)

\* A slot after objects.resize(_Capacity): removed = true, id = 0; bounds and
\* user_data are never read while removed is true.
EmptySlot ==
    [bounds |-> AABB(0, 0, 0, 0), user_data |-> 0, removed |-> TRUE, id |-> 0]

\* QuadTree(const QuadTreeAABB<T>& _Bounds): max_bounds is left unassigned and
\* holds g.
NewNode(b, g) ==
    [bounds |-> b, max_bounds |-> g, object_count |-> 0,
     objects |-> [i \in 0 .. capacity - 1 |-> EmptySlot],
     has_children |-> FALSE]

Child(p, i) == Append(p, i)

Parent(p) == SubSeq(p, 1, Len(p) - 1)

----------------------------------------------------------------------------
(* split, merge, remove_empty_nodes, get_total_objects *)

\* child_aabb with the right edge of the top left child taken from
\* bounds.left.
ChildBounds_TopLeftEmpty(b, i) ==
    LET e == CASE i = 0 -> [left |-> b.left, top |-> b.top,
                            right |-> b.left, bottom |-> b.y]
               [] i = 1 -> [left |-> b.x, top |-> b.top,
                            right |-> b.right, bottom |-> b.y]
               [] i = 2 -> [left |-> b.x, top |-> b.y,
                            right |-> b.right, bottom |-> b.bottom]
               [] i = 3 -> [left |-> b.left, top |-> b.y,
                            right |-> b.x, bottom |-> b.bottom]
    IN  set_dimensions(set_center(
            [left |-> e.left, top |-> e.top, right |-> e.right,
             bottom |-> e.bottom, x |-> 0, y |-> 0, width |-> 0, height |-> 0]))

\* child_aabb with the left edge of the top right child taken from
\* bounds.left, as in the top left child.
ChildBounds_TopRightFromLeft(b, i) ==
    LET e == CASE i = 0 -> [left |-> b.left, top |-> b.top,
                            right |-> b.x, bottom |-> b.y]
               [] i = 1 -> [left |-> b.left, top |-> b.top,
                            right |-> b.right, bottom |-> b.y]
               [] i = 2 -> [left |-> b.x, top |-> b.y,
                            right |-> b.right, bottom |-> b.bottom]
               [] i = 3 -> [left |-> b.left, top |-> b.y,
                            right |-> b.x, bottom |-> b.bottom]
    IN  set_dimensions(set_center(
            [left |-> e.left, top |-> e.top, right |-> e.right,
             bottom |-> e.bottom, x |-> 0, y |-> 0, width |-> 0, height |-> 0]))

\* child_aabb for children[i]: top left, top right, bottom right, bottom
\* left, cut at the centre (bounds.x, bounds.y) of the parent.
ChildBounds(b, i) ==
    LET e == CASE i = 0 -> [left |-> b.left, top |-> b.top,
                            right |-> b.x, bottom |-> b.y]
               [] i = 1 -> [left |-> b.x, top |-> b.top,
                            right |-> b.right, bottom |-> b.y]
               [] i = 2 -> [left |-> b.x, top |-> b.y,
                            right |-> b.right, bottom |-> b.bottom]
               [] i = 3 -> [left |-> b.left, top |-> b.y,
                            right |-> b.x, bottom |-> b.bottom]
    IN  set_dimensions(set_center(
            [left |-> e.left, top |-> e.top, right |-> e.right,
             bottom |-> e.bottom, x |-> 0, y |-> 0, width |-> 0, height |-> 0]))

\* split that empties the slots of the node it subdivides.
split_ClearSlots(t, p, g) ==
    IF ~t[p].has_children
    THEN LET new == { Child(p, i) : i \in 0 .. kChildren - 1 }
         IN  [q \in DOMAIN t \cup new |->
                 IF q = p THEN [NewNode(t[p].bounds, t[p].max_bounds)
                                  EXCEPT !.has_children = TRUE]
                 ELSE IF q \in new
                      THEN NewNode(ChildBounds(t[p].bounds, q[Len(q)]), g[q[Len(q)]])
                      ELSE t[q]]
    ELSE t

\* split without the assignment has_children = true.
split_NoFlag(t, p, g) ==
    IF ~t[p].has_children
    THEN LET new == { Child(p, i) : i \in 0 .. kChildren - 1 }
         IN  [q \in DOMAIN t \cup new |->
                 IF q \in new
                 THEN NewNode(ChildBounds(t[p].bounds, q[Len(q)]), g[q[Len(q)]])
                 ELSE t[q]]
    ELSE t

\* g[i] is what the unassigned max_bounds of the new children[i] holds.
split(t, p, g) ==
    IF ~t[p].has_children
    THEN LET new == { Child(p, i) : i \in 0 .. kChildren - 1 }
         IN  [q \in DOMAIN t \cup new |->
                 IF q = p THEN [t[p] EXCEPT !.has_children = TRUE]
                 ELSE IF q \in new
                      THEN NewNode(ChildBounds(t[p].bounds, q[Len(q)]), g[q[Len(q)]])
                      ELSE t[q]]
    ELSE t

RECURSIVE merge(_, _)
merge(t, p) ==
    IF t[p].has_children
    THEN LET t0 == merge(t, Child(p, 0))
             t1 == merge(t0, Child(p, 1))
             t2 == merge(t1, Child(p, 2))
             t3 == merge(t2, Child(p, 3))
             gone == { Child(p, i) : i \in 0 .. kChildren - 1 }
         IN  [q \in DOMAIN t3 \ gone |->
                 IF q = p THEN [t3[p] EXCEPT !.has_children = FALSE] ELSE t3[q]]
    ELSE t

RECURSIVE get_total_objects(_, _)
get_total_objects(t, p) ==
    IF t[p].has_children
    THEN t[p].object_count
         + get_total_objects(t, Child(p, 0)) + get_total_objects(t, Child(p, 1))
         + get_total_objects(t, Child(p, 2)) + get_total_objects(t, Child(p, 3))
    ELSE t[p].object_count

\* remove_empty_nodes that merges on the node's own object_count.
RECURSIVE remove_empty_nodes_OwnCount(_, _)
remove_empty_nodes_OwnCount(t, p) ==
    IF t[p].has_children
    THEN LET t0 == remove_empty_nodes_OwnCount(t, Child(p, 0))
             t1 == remove_empty_nodes_OwnCount(t0, Child(p, 1))
             t2 == remove_empty_nodes_OwnCount(t1, Child(p, 2))
             t3 == remove_empty_nodes_OwnCount(t2, Child(p, 3))
         IN  IF t3[p].object_count < 1 THEN merge(t3, p) ELSE t3
    ELSE t

\* remove_empty_nodes that merges without the test of get_total_objects().
RECURSIVE remove_empty_nodes_NoTest(_, _)
remove_empty_nodes_NoTest(t, p) ==
    IF t[p].has_children
    THEN LET t0 == remove_empty_nodes_NoTest(t, Child(p, 0))
             t1 == remove_empty_nodes_NoTest(t0, Child(p, 1))
             t2 == remove_empty_nodes_NoTest(t1, Child(p, 2))
             t3 == remove_empty_nodes_NoTest(t2, Child(p, 3))
         IN  merge(t3, p)
    ELSE t

RECURSIVE remove_empty_nodes(_, _)
remove_empty_nodes(t, p) ==
    IF t[p].has_children
    THEN LET t0 == remove_empty_nodes(t, Child(p, 0))
             t1 == remove_empty_nodes(t0, Child(p, 1))
             t2 == remove_empty_nodes(t1, Child(p, 2))
             t3 == remove_empty_nodes(t2, Child(p, 3))
         IN  IF get_total_objects(t3, p) < 1 THEN merge(t3, p) ELSE t3
    ELSE t

----------------------------------------------------------------------------
(* resolve_max_bounds *)

\* The loop over the slots, from slot i on, with max_bounds = mb so far. Each
\* live slot assigns the four edges from bounds (not from max_bounds) and the
\* object.
RECURSIVE resolve_objects(_, _, _)
resolve_objects(n, mb, i) ==
    IF i >= capacity THEN mb
    ELSE LET o == n.objects[i]
             ext == [mb EXCEPT !.left = Min(n.bounds.left, o.bounds.left),
                               !.top = Min(n.bounds.top, o.bounds.top),
                               !.right = Max(n.bounds.right, o.bounds.right),
                               !.bottom = Max(n.bounds.bottom, o.bounds.bottom)]
         IN  resolve_objects(n,
                 IF o.removed THEN mb
                 ELSE IF ~verify(ext) THEN n.bounds ELSE ext,
                 i + 1)

\* The loop over the children, from children[i] on: reads the max_bounds each
\* child holds.
RECURSIVE resolve_children(_, _, _, _)
resolve_children(t, p, mb, i) ==
    IF i >= kChildren THEN mb
    ELSE LET c == t[Child(p, i)].max_bounds
             ext == [mb EXCEPT !.left = Min(mb.left, c.left),
                               !.top = Min(mb.top, c.top),
                               !.right = Max(mb.right, c.right),
                               !.bottom = Max(mb.bottom, c.bottom)]
         IN  resolve_children(t, p,
                 IF ~verify(ext) THEN t[p].bounds ELSE ext, i + 1)

RECURSIVE resolve_max_bounds(_, _)
resolve_max_bounds(t, p) ==
    LET n == t[p]
        m1 == resolve_objects(n, n.bounds, 0)
        m2 == IF n.has_children THEN resolve_children(t, p, m1, 0) ELSE m1
        t1 == [t EXCEPT ![p].max_bounds = m2]
    IN  IF p # <<>> THEN resolve_max_bounds(t1, Parent(p)) ELSE t1

----------------------------------------------------------------------------
(* insert *)

\* The first slot from i on with removed = true, or capacity when none.
RECURSIVE FirstFree(_, _)
FirstFree(n, i) ==
    IF i >= capacity THEN capacity
    ELSE IF n.objects[i].removed THEN i ELSE FirstFree(n, i + 1)

\* insert on the node at p. The result is the tree afterwards and "true",
\* "false", or "throw" for std::out_of_range. A child is tried only when the
\* children before it returned false; an exception of a child leaves insert
\* at once.
RECURSIVE insert(_, _, _, _)
RECURSIVE insert_children(_, _, _, _, _)

\* insert_children that returns false, without an exception, when no child
\* accepted the object.
RECURSIVE insert_children_NoThrow(_, _, _, _, _)
insert_children_NoThrow(t, p, o, g, i) ==
    IF i >= kChildren THEN [t |-> t, ret |-> "false"]
    ELSE LET r == insert(t, Child(p, i), o, g)
         IN  IF r.ret = "false" THEN insert_children_NoThrow(r.t, p, o, g, i + 1)
             ELSE r

\* insert_children that tries every child, also after one has accepted.
RECURSIVE insert_children_TryAll(_, _, _, _, _)
insert_children_TryAll(t, p, o, g, i) ==
    IF i >= kChildren THEN [t |-> t, ret |-> "throw"]
    ELSE LET r == insert(t, Child(p, i), o, g)
         IN  IF r.ret = "false" THEN insert_children_TryAll(r.t, p, o, g, i + 1)
             ELSE IF r.ret = "throw" THEN r
             ELSE [t |-> insert_children_TryAll(r.t, p, o, g, i + 1).t,
                   ret |-> "true"]

insert_children(t, p, o, g, i) ==
    IF i >= kChildren THEN [t |-> t, ret |-> "throw"]
    ELSE LET r == insert(t, Child(p, i), o, g)
         IN  IF r.ret = "false" THEN insert_children(r.t, p, o, g, i + 1)
             ELSE r

\* insert that hands the object to the children whenever the node has
\* children, full or not.
insert_ChildrenFirst(t, p, o, g) ==
    IF intersects(t[p].bounds, o.bounds)
    THEN IF t[p].object_count >= capacity \/ t[p].has_children
         THEN insert_children(IF ~t[p].has_children THEN split(t, p, g) ELSE t,
                              p, o, g, 0)
         ELSE LET i == FirstFree(t[p], 0)
              IN  IF i < capacity
                  THEN LET t1 == [t EXCEPT ![p].objects[i] =
                                     [bounds |-> o.bounds, user_data |-> o.user_data,
                                      removed |-> FALSE, id |-> o.id]]
                           t2 == resolve_max_bounds(t1, p)
                       IN  [t |-> [t2 EXCEPT ![p].object_count = @ + 1],
                            ret |-> "true"]
                  ELSE [t |-> t, ret |-> "false"]
    ELSE [t |-> t, ret |-> "false"]

\* insert without the test that the bounds intersect.
insert_NoBoundsTest(t, p, o, g) ==
    IF t[p].object_count >= capacity
    THEN insert_children(IF ~t[p].has_children THEN split(t, p, g) ELSE t,
                         p, o, g, 0)
    ELSE LET i == FirstFree(t[p], 0)
         IN  IF i < capacity
             THEN LET t1 == [t EXCEPT ![p].objects[i] =
                                [bounds |-> o.bounds, user_data |-> o.user_data,
                                 removed |-> FALSE, id |-> o.id]]
                      t2 == resolve_max_bounds(t1, p)
                  IN  [t |-> [t2 EXCEPT ![p].object_count = @ + 1],
                       ret |-> "true"]
             ELSE [t |-> t, ret |-> "false"]

insert(t, p, o, g) ==
    IF intersects(t[p].bounds, o.bounds)
    THEN IF t[p].object_count >= capacity
         THEN insert_children(IF ~t[p].has_children THEN split(t, p, g) ELSE t,
                              p, o, g, 0)
         ELSE LET i == FirstFree(t[p], 0)
              IN  IF i < capacity
                  THEN LET t1 == [t EXCEPT ![p].objects[i] =
                                     [bounds |-> o.bounds, user_data |-> o.user_data,
                                      removed |-> FALSE, id |-> o.id]]
                           t2 == resolve_max_bounds(t1, p)
                       IN  [t |-> [t2 EXCEPT ![p].object_count = @ + 1],
                            ret |-> "true"]
                  ELSE [t |-> t, ret |-> "false"]
    ELSE [t |-> t, ret |-> "false"]

----------------------------------------------------------------------------
(* remove *)

\* FirstMatch without the comparison of the ids.
RECURSIVE FirstMatch_AnyLive(_, _, _)
FirstMatch_AnyLive(n, id, i) ==
    IF i >= capacity THEN capacity
    ELSE IF ~n.objects[i].removed THEN i
         ELSE FirstMatch_AnyLive(n, id, i + 1)

\* FirstMatch without the test of the removed flag.
RECURSIVE FirstMatch_NoRemovedTest(_, _, _)
FirstMatch_NoRemovedTest(n, id, i) ==
    IF i >= capacity THEN capacity
    ELSE IF n.objects[i].id = id THEN i
         ELSE FirstMatch_NoRemovedTest(n, id, i + 1)

\* The first live slot from i on whose id is id, or capacity when none.
RECURSIVE FirstMatch(_, _, _)
FirstMatch(n, id, i) ==
    IF i >= capacity THEN capacity
    ELSE IF ~n.objects[i].removed /\ n.objects[i].id = id THEN i
         ELSE FirstMatch(n, id, i + 1)

\* remove on the node at p. Where control reaches the end of the function
\* without a return statement (bounds intersect, no slot matched, no
\* children) the caller receives u, a value the build is free to choose.
RECURSIVE remove(_, _, _, _)
RECURSIVE remove_children(_, _, _, _, _)
remove_children(t, p, o, u, i) ==
    IF i >= kChildren THEN [t |-> t, ret |-> FALSE]
    ELSE LET r == remove(t, Child(p, i), o, u)
         IN  IF r.ret THEN r ELSE remove_children(r.t, p, o, u, i + 1)

remove(t, p, o, u) ==
    IF intersects(t[p].bounds, o.bounds)
    THEN LET i == IF t[p].object_count > 0
                  THEN FirstMatch(t[p], o.id, 0) ELSE capacity
         IN  IF i < capacity
             THEN LET t1 == [t EXCEPT ![p].objects[i].removed = TRUE,
                                      ![p].object_count = @ - 1]
                      t2 == remove_empty_nodes(t1, p)
                  IN  [t |-> resolve_max_bounds(t2, p), ret |-> TRUE]
             ELSE IF t[p].has_children
                  THEN remove_children(t, p, o, u, 0)
                  ELSE [t |-> t, ret |-> u]
    ELSE [t |-> t, ret |-> FALSE]

----------------------------------------------------------------------------
(* query *)

\* query_objects without the test of removed.
RECURSIVE query_objects_NoRemovedTest(_, _, _, _)
query_objects_NoRemovedTest(n, region, out, i) ==
    IF i >= capacity THEN out
    ELSE query_objects_NoRemovedTest(n, region,
             IF intersects(n.objects[i].bounds, region)
             THEN Append(out, n.objects[i]) ELSE out,
             i + 1)

\* The slots from i on that are live and intersect the region, appended to
\* out in slot order.
RECURSIVE query_objects(_, _, _, _)
query_objects(n, region, out, i) ==
    IF i >= capacity THEN out
    ELSE query_objects(n, region,
             IF ~n.objects[i].removed /\ intersects(n.objects[i].bounds, region)
             THEN Append(out, n.objects[i]) ELSE out,
             i + 1)

\* query(_Bounds, _Objects, _Length, _BoundChecks): out is _Objects[0 ..
\* _Length - 1]; the buffer is as large as the caller needs.
RECURSIVE query_buffer(_, _, _, _, _)
query_buffer(t, p, region, out, checks) ==
    IF intersects(t[p].max_bounds, region) \/ ~checks
    THEN LET o4 == IF t[p].has_children
                   THEN LET o1 == query_buffer(t, Child(p, 0), region, out, checks)
                            o2 == query_buffer(t, Child(p, 1), region, o1, checks)
                            o3 == query_buffer(t, Child(p, 2), region, o2, checks)
                        IN  query_buffer(t, Child(p, 3), region, o3, checks)
                   ELSE out
         IN  IF t[p].object_count < 1 THEN o4
             ELSE query_objects(t[p], region, o4, 0)
    ELSE out

\* query(_Bounds, std::vector& _Objects, _BoundChecks)
RECURSIVE query_vector(_, _, _, _, _)
query_vector(t, p, region, out, checks) ==
    IF intersects(t[p].bounds, region) \/ ~checks
    THEN LET o4 == IF t[p].has_children
                   THEN LET o1 == query_vector(t, Child(p, 0), region, out, checks)
                            o2 == query_vector(t, Child(p, 1), region, o1, checks)
                            o3 == query_vector(t, Child(p, 2), region, o2, checks)
                        IN  query_vector(t, Child(p, 3), region, o3, checks)
                   ELSE out
         IN  IF t[p].object_count < 1 THEN o4
             ELSE query_objects(t[p], region, o4, 0)
    ELSE out

----------------------------------------------------------------------------
(* The state of the tree as a caller sees it *)

Root == <<>>

\* The live slots of the tree, each with the path of its node and its index.
LiveSlots(t) ==
    { [node |-> p, slot |-> i] : p \in DOMAIN t, i \in 0 .. capacity - 1 }
        \ { s \in { [node |-> p, slot |-> i] : p \in DOMAIN t, i \in 0 .. capacity - 1 } :
                t[s.node].objects[s.slot].removed }

\* The live objects of the tree.
Live(t) == { t[s.node].objects[s.slot] : s \in LiveSlots(t) }

LiveIds(t) == { o.id : o \in Live(t) }

\* The slot record insert stores for the object o.
Stored(o) ==
    [bounds |-> o.bounds, user_data |-> o.user_data, removed |-> FALSE, id |-> o.id]

\* How many entries of the sequence out equal e.
Count(out, e) == Cardinality({ k \in 1 .. Len(out) : out[k] = e })

\* No call yet: op before the first call, and the fields a call does not use.
NoCall ==
    [name |-> "none",
     obj |-> [bounds |-> AABB(0, 0, 0, 0), user_data |-> 0, id |-> 0],
     region |-> RootBounds, checks |-> TRUE, ret |-> "none", out |-> <<>>]

----------------------------------------------------------------------------
(* The calls on the root *)

Init ==
    /\ capacity \in 1 .. MaxCapacity
    /\ \E g \in Garbage : tree = [p \in {Root} |-> NewNode(RootBounds, g)]
    /\ op = NoCall
    /\ phase = "insert"
    /\ calls = 0

\* insert(o) for an object with valid bounds and an id no live object has;
\* the caller hands out the smallest such id. The children a split creates
\* all hold the same unassigned max_bounds g0.
Insert(o) ==
    /\ calls < MaxCalls
    /\ o.id \notin LiveIds(tree)
    /\ \A j \in Ids : j < o.id => j \in LiveIds(tree)
    /\ \E g0 \in Garbage :
         LET r == insert(tree, Root, o, [i \in 0 .. kChildren - 1 |-> g0])
         IN  /\ tree' = r.t
             /\ op' = [NoCall EXCEPT !.name = "insert", !.obj = o,
                                     !.ret = r.ret]
             /\ phase' = IF phase = "insert" /\ r.ret = "true"
                         THEN "insert" ELSE "mixed"
    /\ calls' = calls + 1
    /\ UNCHANGED capacity

\* remove(o) for any id and any bounds.
Remove(o) ==
    /\ calls < MaxCalls
    /\ \E u \in BOOLEAN :
         LET r == remove(tree, Root, o, u)
         IN  /\ tree' = r.t
             /\ op' = [NoCall EXCEPT !.name = "remove", !.obj = o,
                                     !.ret = IF r.ret THEN "true" ELSE "false"]
    /\ phase' = IF phase \in {"insert", "remove"} /\ Stored(o) \in Live(tree)
                THEN "remove" ELSE "mixed"
    /\ calls' = calls + 1
    /\ UNCHANGED capacity

\* The two query overloads, called with an empty output; the actions pass
\* the default _BoundChecks = true.
QueryBuffer(region, checks) ==
    /\ op' = [NoCall EXCEPT !.name = "query_buffer", !.region = region,
                            !.checks = checks,
                            !.out = query_buffer(tree, Root, region, <<>>, checks)]
    /\ UNCHANGED <<capacity, tree, phase, calls>>

QueryVector(region, checks) ==
    /\ op' = [NoCall EXCEPT !.name = "query_vector", !.region = region,
                            !.checks = checks,
                            !.out = query_vector(tree, Root, region, <<>>, checks)]
    /\ UNCHANGED <<capacity, tree, phase, calls>>

Next ==
    \/ \E o \in Objects : Insert(o)
    \/ \E o \in Objects : Remove(o)
    \/ \E region \in Regions : QueryBuffer(region, TRUE)
    \/ \E region \in Regions : QueryVector(region, TRUE)

Spec == Init /\ [][Next]_vars

----------------------------------------------------------------------------
(* The calls of insert and remove with any bounds *)

\* The bounds the tree is constructed with: a square, and a box whose centre
\* is not the middle of its edges in int arithmetic.
Roots == { RootBounds, AABB(0, 0, 3, 5) }

\* Object bounds: valid ones, boxes of no width on the lines x = 2 and x = 1,
\* a box whose left edge is right of its right edge, and a box outside every
\* root.
AnyBoxes ==
    { AABB(0, 0, 1, 1), AABB(1, 1, 3, 3), AABB(2, 0, 2, 4), AABB(1, 0, 1, 4),
      AABB(3, 0, 1, 4), AABB(5, 5, 6, 6) }

AnyObjects ==
    { [bounds |-> b, user_data |-> UserData(i), id |-> i] : b \in AnyBoxes, i \in Ids }

InitAny ==
    /\ capacity \in 1 .. MaxCapacity
    /\ \E b \in Roots, g \in Garbage : tree = [p \in {Root} |-> NewNode(b, g)]
    /\ op = NoCall
    /\ phase = "insert"
    /\ calls = 0

NextAny ==
    \/ \E o \in AnyObjects : Insert(o)
    \/ \E o \in AnyObjects : Remove(o)

SpecAny == InitAny /\ [][NextAny]_vars

----------------------------------------------------------------------------
(* The calls of set_dimensions and set_center on a QuadTreeAABB<int> *)

\* The edges of the box are drawn from -MaxEdge .. MaxEdge.
MaxEdge == 2

\* What the members x, y, width and height hold before they are assigned.
Unset == {0, 9}

\* A caller declares a QuadTreeAABB<int> and assigns its four edges; no tree
\* is constructed. op.region is the box.
InitAABB ==
    /\ capacity = 1
    /\ tree = << >>
    /\ \E l, t, r, b \in -MaxEdge .. MaxEdge : \E d \in Unset :
         op = [NoCall EXCEPT !.region =
                 [left |-> l, top |-> t, right |-> r, bottom |-> b,
                  x |-> d, y |-> d, width |-> d, height |-> d]]
    /\ phase = "insert"
    /\ calls = 0

SetDimensions ==
    /\ op' = [op EXCEPT !.name = "set_dimensions", !.region = set_dimensions(op.region)]
    /\ UNCHANGED <<capacity, tree, phase, calls>>

SetCenter ==
    /\ op' = [op EXCEPT !.name = "set_center", !.region = set_center(op.region)]
    /\ UNCHANGED <<capacity, tree, phase, calls>>

NextAABB ==
    \/ SetDimensions
    \/ SetCenter

SpecAABB == InitAABB /\ [][NextAABB]_vars

----------------------------------------------------------------------------
(* Properties *)

\* The step is a call of insert, resp. remove, on the root.
InsertStep == calls' = calls + 1 /\ op'.name = "insert"
RemoveStep == calls' = calls + 1 /\ op'.name = "remove"

\* The ids of the entries of the sequence out.
OutIds(out) == { out[k].id : k \in 1 .. Len(out) }

\* What a query has to return for the region: each live object whose bounds
\* intersect it once, and nothing else.
ExactAnswer(t, region, out) ==
    /\ \A e \in Live(t) :
         Count(out, e) = IF intersects(e.bounds, region) THEN 1 ELSE 0
    /\ \A k \in 1 .. Len(out) : out[k] \in Live(t)

\* C1: a bounded-buffer query with bound checks on the root returns every
\* live object whose bounds intersect the region once, and nothing else.
C1_BufferQueryComplete ==
    (op.name = "query_buffer" /\ op.checks)
        => ExactAnswer(tree, op.region, op.out)

\* C2: a dynamic-sequence query with bound checks on the root returns every
\* live object whose bounds intersect the region once, also one that spills
\* past the static bounds of the node that stores it.
C2_VectorQueryComplete ==
    (op.name = "query_vector" /\ op.checks)
        => ExactAnswer(tree, op.region, op.out)

\* The sequence out holds exactly n entries with the id of e, and each of
\* them is e.
Holds(out, e, n) ==
    /\ Count(out, e) = n
    /\ Cardinality({ k \in 1 .. Len(out) : out[k].id = e.id }) = n

\* Both overloads, with and without bound checks, return e exactly n times for
\* every region that contains the bounds b.
ReturnedBy(t, e, b, n) ==
    \A region \in Regions, checks \in BOOLEAN :
        Covers(region, b) =>
            /\ Holds(query_buffer(t, Root, region, <<>>, checks), e, n)
            /\ Holds(query_vector(t, Root, region, <<>>, checks), e, n)

\* C3: round trip. After insert(O) returned true, a query of either overload
\* with a region that is or contains O's bounds returns O exactly once; after
\* remove(O) with O's id and bounds, the same queries return O zero times.
C3_RoundTrip ==
    [][ /\ (InsertStep /\ op'.ret = "true")
            => /\ Stored(op'.obj) \in Live(tree')
               /\ ReturnedBy(tree', Stored(op'.obj), op'.obj.bounds, 1)
        /\ (RemoveStep /\ Stored(op'.obj) \in Live(tree))
            => ReturnedBy(tree', Stored(op'.obj), op'.obj.bounds, 0)
      ]_vars

C3_Witness ==
    /\ op.name = "remove" /\ op.ret = "true"
    /\ tree[Root].has_children
    /\ \E p \in DOMAIN tree : \E i \in 0 .. capacity - 1 :
         /\ p # Root
         /\ tree[p].objects[i] = [Stored(op.obj) EXCEPT !.removed = TRUE]

\* C4: after successful inserts followed by the removal of all inserted
\* objects, each by its id and insertion bounds, no node is subdivided and
\* get_total_objects() is 0.
C4_PrunedWhenEmpty ==
    (phase = "remove" /\ Live(tree) = {})
        => /\ \A p \in DOMAIN tree : ~tree[p].has_children
           /\ get_total_objects(tree, Root) = 0

\* A node whose max_bounds was assigned by resolve_max_bounds.
Resolved(t, p) == t[p].max_bounds \notin Garbage

\* C5: the max_bounds of every node that resolve_max_bounds has reached
\* contains the node's bounds, the bounds of every live object in its slots
\* and the max_bounds of every child.
C5_AggregateSound ==
    \A p \in DOMAIN tree :
        Resolved(tree, p) =>
            /\ Covers(tree[p].max_bounds, tree[p].bounds)
            /\ \A i \in 0 .. capacity - 1 :
                 ~tree[p].objects[i].removed
                    => Covers(tree[p].max_bounds, tree[p].objects[i].bounds)
            /\ tree[p].has_children
                 => \A i \in 0 .. kChildren - 1 :
                      Covers(tree[p].max_bounds, tree[Child(p, i)].max_bounds)

\* No node whose bounds intersect b holds a live object with this id.
Absent(t, id, b) ==
    \A s \in LiveSlots(t) :
        intersects(t[s.node].bounds, b) => t[s.node].objects[s.slot].id # id

\* C6: remove of an object whose id no live object has, in any node whose
\* bounds intersect the object's bounds, returns false and leaves the tree
\* unchanged.
C6_RemoveAbsentReturnsFalse ==
    [][ (RemoveStep /\ Absent(tree, op'.obj.id, op'.obj.bounds))
            => (op'.ret = "false" /\ tree' = tree) ]_vars

\* C7: remove of a live object by its id and insertion bounds returns true
\* and tombstones exactly the slot that holds it; every other live slot stays
\* live in its node with the same id, bounds and payload.
C7_RemovePresent ==
    [][ (RemoveStep /\ Stored(op'.obj) \in Live(tree))
            => /\ op'.ret = "true"
               /\ \E s \in LiveSlots(tree) :
                    /\ tree[s.node].objects[s.slot] = Stored(op'.obj)
                    /\ LiveSlots(tree') = LiveSlots(tree) \ {s}
               /\ \A s \in LiveSlots(tree') :
                    tree'[s.node].objects[s.slot] = tree[s.node].objects[s.slot]
               /\ Live(tree') = Live(tree) \ {Stored(op'.obj)}
      ]_vars

C7_Witness ==
    /\ op.name = "remove" /\ op.ret = "true"
    /\ Cardinality(Live(tree)) = 2
    /\ \E p \in DOMAIN tree : \E i \in 0 .. capacity - 1 :
         tree[p].objects[i] = [Stored(op.obj) EXCEPT !.removed = TRUE]

\* The live slots, other than s, that hold an object with the bounds of the
\* object in s.
Twins(t, s) ==
    { r \in LiveSlots(t) :
        /\ r # s
        /\ t[r.node].objects[r.slot].bounds = t[s.node].objects[s.slot].bounds }

RootChildren == { Child(Root, i) : i \in 0 .. kChildren - 1 }

\* C9: on a fresh root, each of the first _Capacity inserts of an object
\* that intersects the root returns true and leaves the root a leaf with all
\* the objects in its own slots; the next such insert returns true,
\* subdivides the root into exactly 4 children and stores the object in a
\* child.
C9_CapacityBoundary ==
    [][ (/\ phase = "insert"
         /\ InsertStep
         /\ intersects(tree[Root].bounds, op'.obj.bounds))
            => /\ op'.ret = "true"
               /\ calls' <= capacity
                    => /\ ~tree'[Root].has_children
                       /\ DOMAIN tree' = {Root}
                       /\ tree'[Root].object_count = calls'
                       /\ Cardinality(LiveSlots(tree')) = calls'
                       /\ Stored(op'.obj) \in Live(tree')
               /\ calls' = capacity + 1
                    => /\ ~tree[Root].has_children
                       /\ tree'[Root].has_children
                       /\ { p \in DOMAIN tree' : Len(p) = 1 } = RootChildren
                       /\ tree'[Root].object_count = capacity
                       /\ tree'[Root].objects = tree[Root].objects
                       /\ \E p \in RootChildren : \E i \in 0 .. capacity - 1 :
                            tree'[p].objects[i] = Stored(op'.obj)
      ]_vars

C9_Witness ==
    /\ phase = "insert" /\ op.name = "insert" /\ op.ret = "true"
    /\ calls = capacity + 1
    /\ tree[Root].has_children

\* C10: get_total_objects() on the root is the number of live slots of the
\* tree; a call of insert that returns true raises it by 1, a call of remove
\* that returns true lowers it by 1, and every other call leaves it unchanged.
C10_TotalObjects ==
    [][ /\ get_total_objects(tree', Root) = Cardinality(LiveSlots(tree'))
        /\ get_total_objects(tree', Root) =
             get_total_objects(tree, Root)
               + (IF InsertStep /\ op'.ret = "true" THEN 1 ELSE 0)
               - (IF RemoveStep /\ op'.ret = "true" THEN 1 ELSE 0)
      ]_vars

\* Where the descent of insert from the node at p ends for the object o: in a
\* slot of a node that is not full, in a child that the split of a full leaf
\* creates, at a full node none of whose children intersects o ("fault"), or
\* nowhere when the bounds of p do not intersect o ("miss").
FirstChild(b, o) ==
    IF intersects(ChildBounds(b, 0), o.bounds) THEN 0
    ELSE IF intersects(ChildBounds(b, 1), o.bounds) THEN 1
    ELSE IF intersects(ChildBounds(b, 2), o.bounds) THEN 2
    ELSE IF intersects(ChildBounds(b, 3), o.bounds) THEN 3
    ELSE kChildren

RECURSIVE Target(_, _, _)
Target(t, p, o) ==
    IF ~intersects(t[p].bounds, o.bounds) THEN [kind |-> "miss", node |-> p, slot |-> 0]
    ELSE IF Cardinality({ i \in 0 .. capacity - 1 : ~t[p].objects[i].removed }) < capacity
    THEN [kind |-> "slot", node |-> p,
          slot |-> CHOOSE i \in 0 .. capacity - 1 :
                     /\ t[p].objects[i].removed
                     /\ \A j \in 0 .. i - 1 : ~t[p].objects[j].removed]
    ELSE LET k == FirstChild(t[p].bounds, o)
         IN  IF k = kChildren THEN [kind |-> "fault", node |-> p, slot |-> 0]
             ELSE IF t[p].has_children THEN Target(t, Child(p, k), o)
             ELSE [kind |-> "slot", node |-> Child(p, k), slot |-> 0]

\* The live slots of t hold in u what they hold in t, and u has no others.
SameLive(t, u) ==
    /\ LiveSlots(u) = LiveSlots(t)
    /\ \A s \in LiveSlots(t) : u[s.node].objects[s.slot] = t[s.node].objects[s.slot]

\* C11: when insert reaches a full node whose bounds intersect the object and
\* none of whose four children accepts it, insert raises std::out_of_range;
\* the object is in no slot and get_total_objects() is what it was.
C11_FaultOnExhaustedQuadrants ==
    [][ (InsertStep /\ Target(tree, Root, op'.obj).kind = "fault")
            => /\ op'.ret = "throw"
               /\ SameLive(tree, tree')
               /\ op'.obj.id \notin LiveIds(tree')
               /\ get_total_objects(tree', Root) = get_total_objects(tree, Root)
      ]_vars

\* The fault was raised at a node below the root.
C11_Witness ==
    /\ op.name = "insert" /\ op.ret = "throw"
    /\ \E p \in DOMAIN tree :
         /\ Len(p) = 1
         /\ tree[p].has_children
         /\ Target(tree, Root, op.obj) = [kind |-> "fault", node |-> p, slot |-> 0]

\* C12: insert on a node whose bounds do not intersect the object's bounds
\* returns false and changes nothing in the tree.
C12_InsertOutside ==
    [][ /\ (InsertStep /\ ~intersects(tree[Root].bounds, op'.obj.bounds))
            => (op'.ret = "false" /\ tree' = tree)
        /\ \A p \in DOMAIN tree' : \A o \in AnyObjects : \A g \in Garbage :
             ~intersects(tree'[p].bounds, o.bounds)
                => insert(tree', p, o, [i \in 0 .. kChildren - 1 |-> g])
                     = [t |-> tree', ret |-> "false"]
      ]_vars

C12_Witness ==
    /\ op.name = "insert" /\ op.ret = "false"
    /\ ~intersects(tree[Root].bounds, op.obj.bounds)
    /\ tree[Root].has_children

\* The unit cells of the box b.
Cells(b) ==
    { AABB(a, c, a + 1, c + 1) : a \in b.left .. b.right - 1, c \in b.top .. b.bottom - 1 }

\* The edges of box c are l, t, r, b.
Edges(c, l, t, r, b) == c.left = l /\ c.top = t /\ c.right = r /\ c.bottom = b

\* C13: the bounds of the four children of every subdivided node are, in the
\* order top left, top right, bottom right, bottom left, the quadrants of the
\* node's bounds cut at its centre; together they cover the node's bounds
\* with no gap and no two of them intersect under the strict test.
C13_PartitionTiling ==
    \A p \in DOMAIN tree :
        tree[p].has_children =>
            LET b == tree[p].bounds
                c == [i \in 0 .. kChildren - 1 |-> tree[Child(p, i)].bounds]
            IN  /\ Edges(c[0], b.left, b.top, b.x, b.y)
                /\ Edges(c[1], b.x, b.top, b.right, b.y)
                /\ Edges(c[2], b.x, b.y, b.right, b.bottom)
                /\ Edges(c[3], b.left, b.y, b.x, b.bottom)
                /\ \A cell \in Cells(b) :
                     Cardinality({ i \in 0 .. kChildren - 1 : Covers(c[i], cell) }) = 1
                /\ \A i, j \in 0 .. kChildren - 1 : i # j => ~intersects(c[i], c[j])

\* A root whose centre is not the middle of its edges is subdivided, and so
\* is one of its children.
C13_Witness ==
    /\ tree[Root].has_children
    /\ 2 * tree[Root].bounds.x # tree[Root].bounds.left + tree[Root].bounds.right
    /\ \E p \in DOMAIN tree :
         /\ Len(p) = 1
         /\ tree[p].has_children
         /\ Cells(tree[p].bounds) # {}

\* C14: in every node the slot array has exactly _Capacity entries, and
\* object_count is the number of slots whose removed flag is false, between
\* 0 and _Capacity.
C14_SlotCount ==
    \A p \in DOMAIN tree :
        /\ DOMAIN tree[p].objects = 0 .. capacity - 1
        /\ Cardinality(DOMAIN tree[p].objects) = capacity
        /\ tree[p].object_count
             = Cardinality({ i \in DOMAIN tree[p].objects : ~tree[p].objects[i].removed })
        /\ tree[p].object_count >= 0
        /\ tree[p].object_count <= capacity

\* A remove has left a node with a removed slot beside a live one, and a
\* child holds an object.
C14_Witness ==
    /\ op.name = "remove" /\ op.ret = "true"
    /\ \E i, j \in 0 .. capacity - 1 :
         tree[Root].objects[i].removed /\ ~tree[Root].objects[j].removed
    /\ \E p \in DOMAIN tree : Len(p) = 1 /\ tree[p].object_count > 0

\* The live slots of t that hold the id.
SlotsOf(t, id) ==
    { s \in { [node |-> p, slot |-> i] : p \in DOMAIN t, i \in 0 .. capacity - 1 } :
        ~t[s.node].objects[s.slot].removed /\ t[s.node].objects[s.slot].id = id }

\* C15: an insert on a node whose bounds intersect the object stores it in
\* exactly one slot of the tree: the node's first free slot when the node is
\* not full, and otherwise in the subtree of the first child, in the order
\* top left, top right, bottom right, bottom left, that accepts it; no later
\* child is tried and no object is stored twice. Where no child accepts, the
\* insert ends with the exception and stores nothing.
C15_InsertionTarget ==
    [][ (InsertStep /\ intersects(tree[Root].bounds, op'.obj.bounds))
            => LET o  == op'.obj
                   tg == Target(tree, Root, o)
                   s  == [node |-> tg.node, slot |-> tg.slot]
               IN  /\ tg.kind \in {"slot", "fault"}
                   /\ (op'.ret = "true") <=> (tg.kind = "slot")
                   /\ (op'.ret = "throw") <=> (tg.kind = "fault")
                   /\ Cardinality(SlotsOf(tree', o.id)) <= 1
                   /\ tg.kind = "slot"
                        => /\ SlotsOf(tree', o.id) = {s}
                           /\ LiveSlots(tree') = LiveSlots(tree) \cup {s}
                           /\ s \notin LiveSlots(tree)
                           /\ tree'[s.node].objects[s.slot]
                                = [bounds |-> o.bounds, user_data |-> o.user_data,
                                   removed |-> FALSE, id |-> o.id]
                           /\ \A q \in LiveSlots(tree) :
                                tree'[q.node].objects[q.slot] = tree[q.node].objects[q.slot]
      ]_vars

\* An object whose bounds intersect all four children of a full root was
\* stored below the root, in the first slot of the top left child and
\* nowhere else.
C15_Witness ==
    /\ op.name = "insert" /\ op.ret = "true"
    /\ \A i \in 0 .. kChildren - 1 :
         Child(Root, i) \in DOMAIN tree
         /\ intersects(tree[Child(Root, i)].bounds, op.obj.bounds)
    /\ SlotsOf(tree, op.obj.id) = {[node |-> Child(Root, 0), slot |-> 0]}
    /\ tree[Root].object_count = capacity

\* split on the node at p of t changes nothing but has_children of p, and
\* nothing at all when p has children.
SplitFrame(t, p, g) ==
    LET u == split(t, p, g)
    IN  /\ t[p].has_children => u = t
        /\ u[p].objects = t[p].objects
        /\ u[p].object_count = t[p].object_count
        /\ u[p].bounds = t[p].bounds
        /\ u[p].max_bounds = t[p].max_bounds
        /\ u[p].has_children
        /\ \A q \in DOMAIN t : q # p => u[q] = t[q]
        /\ DOMAIN t \subseteq DOMAIN u

\* C16: split leaves the slots, object_count and bounds of the node it
\* subdivides as they were and does nothing when the node has children; an
\* object stays in the slot of the node it was stored in until it is removed:
\* no insert or remove of another object moves it.
C16_SplitKeepsObjects ==
    [][ /\ \A p \in DOMAIN tree' : \A g \in Garbage :
              SplitFrame(tree', p, [i \in 0 .. kChildren - 1 |-> g])
        /\ \A s \in LiveSlots(tree) :
              LET e == tree[s.node].objects[s.slot]
              IN  (RemoveStep /\ op'.obj.id = e.id)
                  \/ /\ s.node \in DOMAIN tree'
                     /\ tree'[s.node].objects[s.slot] = e
                     /\ SlotsOf(tree', e.id) = {s}
      ]_vars

\* An insert has subdivided a full child of the full root; the objects stored
\* before are in the root and in that child.
C16_Witness ==
    /\ op.name = "insert" /\ op.ret = "true"
    /\ tree[Root].object_count = capacity
    /\ \E p \in DOMAIN tree :
         /\ Len(p) = 1
         /\ tree[p].has_children
         /\ tree[p].object_count = capacity
         /\ \E i \in 0 .. kChildren - 1 :
              SlotsOf(tree, op.obj.id) = {[node |-> Child(p, i), slot |-> 0]}

\* The descent of insert for o, started at the node q, comes to the node p
\* with bounds that intersect o.
RECURSIVE Reaches(_, _, _, _)
Reaches(t, q, p, o) ==
    /\ intersects(t[q].bounds, o.bounds)
    /\ \/ q = p
       \/ /\ t[q].object_count >= capacity
          /\ t[q].has_children
          /\ FirstChild(t[q].bounds, o) < kChildren
          /\ Reaches(t, Child(q, FirstChild(t[q].bounds, o)), p, o)

\* The nodes below p.
Below(t, p) ==
    { q \in DOMAIN t : Len(q) > Len(p) /\ SubSeq(q, 1, Len(p)) = p }

\* The last call removed its object from slot i of the node p, which has
\* children that still hold objects.
FreedIn(p, i) ==
    /\ op.name = "remove" /\ op.ret = "true"
    /\ tree[p].has_children
    /\ tree[p].objects[i].removed
    /\ tree[p].objects[i].id = op.obj.id
    /\ \E q \in Below(tree, p) : tree[q].object_count > 0

\* C17: after an object was removed from the own slots of a subdivided node
\* that stays subdivided, the next insert that reaches that node with
\* intersecting bounds stores its object in the freed slot of the node, and
\* not in a child: the node holds objects directly again while its
\* descendants hold others.
C17_SlotReuse ==
    [][ \A p \in DOMAIN tree : \A i \in 0 .. capacity - 1 :
          (InsertStep /\ FreedIn(p, i) /\ Reaches(tree, Root, p, op'.obj))
              => /\ op'.ret = "true"
                 /\ \E j \in 0 .. capacity - 1 :
                      /\ tree[p].objects[j].removed
                      /\ SlotsOf(tree', op'.obj.id) = {[node |-> p, slot |-> j]}
                 /\ (tree[p].object_count = capacity - 1)
                      => SlotsOf(tree', op'.obj.id) = {[node |-> p, slot |-> i]}
                 /\ tree'[p].has_children
                 /\ tree'[p].object_count = tree[p].object_count + 1
                 /\ \A q \in Below(tree, p) : q \in DOMAIN tree' /\ tree'[q] = tree[q]
                 /\ \E q \in Below(tree', p) : tree'[q].object_count > 0
      ]_vars

\* The root, subdivided while it was full, holds the object of the last
\* insert in a slot that a remove had freed, and a child holds another.
C17_Witness ==
    /\ op.name = "insert" /\ op.ret = "true"
    /\ tree[Root].has_children
    /\ \E j \in 0 .. capacity - 1 :
         SlotsOf(tree, op.obj.id) = {[node |-> Root, slot |-> j]}
    /\ tree[Root].object_count = capacity
    /\ \E q \in Below(tree, Root) : tree[q].object_count > 0

\* The live slots of t in the node p and below it.
LiveIn(t, p) == { s \in LiveSlots(t) : s.node = p \/ s.node \in Below(t, p) }

\* The live slots of t that the step does not remove.
Kept(t) ==
    { s \in LiveSlots(t) : ~(RemoveStep /\ t[s.node].objects[s.slot].id = op'.obj.id) }

\* C18: the pruning after a removal discards the children of a node only if
\* no live object is left in the node and below it at that moment; a node
\* with no live object of its own whose descendants hold live objects keeps
\* its children, and merge discards no live object.
C18_PruneOnlyEmpty ==
    [][ /\ \A p \in DOMAIN tree :
              tree[p].has_children
                 => /\ (p \notin DOMAIN tree' \/ ~tree'[p].has_children)
                          => /\ RemoveStep
                             /\ LiveIn(tree, p) \cap Kept(tree) = {}
                             /\ p \in DOMAIN tree' => tree'[p].object_count = 0
                    /\ (\E s \in Kept(tree) : s.node \in Below(tree, p))
                          => /\ p \in DOMAIN tree'
                             /\ tree'[p].has_children
                             /\ \A i \in 0 .. kChildren - 1 : Child(p, i) \in DOMAIN tree'
        /\ \A s \in Kept(tree) :
              /\ s \in LiveSlots(tree')
              /\ tree'[s.node].objects[s.slot] = tree[s.node].objects[s.slot]
        /\ \A p \in DOMAIN tree' :
              LET u == remove_empty_nodes(tree', p)
              IN  /\ LiveSlots(u) = LiveSlots(tree')
                  /\ \A q \in DOMAIN tree' :
                        (tree'[q].has_children /\ LiveIn(tree', q) # {})
                            => (q \in DOMAIN u /\ u[q].has_children)
      ]_vars

\* A remove has left the subdivided root without a live object of its own
\* while a child holds one.
C18_Witness ==
    /\ op.name = "remove" /\ op.ret = "true"
    /\ \E i \in 0 .. capacity - 1 :
         tree[Root].objects[i].removed /\ tree[Root].objects[i].id = op.obj.id
    /\ tree[Root].object_count = 0
    /\ tree[Root].has_children
    /\ \E q \in Below(tree, Root) : tree[q].object_count > 0

\* The centre of the box n is between its edges.
CentreInside(n) ==
    n.left <= n.x /\ n.x <= n.right /\ n.top <= n.y /\ n.y <= n.bottom

\* The box b has no extent across a line through the centre of n along which
\* the children of n meet: it is on the line, or its edges are in the wrong
\* order around it.
OnBoundary(b, n) ==
    \/ b.right <= n.x /\ n.x <= b.left
    \/ b.bottom <= n.y /\ n.y <= b.top

\* C19: in a tree whose nodes have their centres between their edges, an
\* insert of an object with valid bounds that intersect the root's bounds
\* returns true and never raises std::out_of_range, at every depth; the
\* exception is raised only for objects with degenerate bounds that lie on
\* the boundary between the quadrants of a node.
C19_FaultOnlyDegenerate ==
    [][ InsertStep
            => /\ \A p \in DOMAIN tree' : CentreInside(tree'[p].bounds)
               /\ (verify(op'.obj.bounds)
                     /\ intersects(tree[Root].bounds, op'.obj.bounds))
                    => /\ op'.ret = "true"
                       /\ op'.obj.id \in LiveIds(tree')
               /\ op'.ret = "throw"
                    => /\ ~verify(op'.obj.bounds)
                       /\ \E p \in DOMAIN tree' :
                            /\ Reaches(tree', Root, p, op'.obj)
                            /\ FirstChild(tree'[p].bounds, op'.obj) = kChildren
                            /\ OnBoundary(op'.obj.bounds, tree'[p].bounds)
      ]_vars

\* An object with valid bounds was stored two levels below the root, in a
\* tree that has a node of no extent.
C19_Witness ==
    /\ op.name = "insert" /\ op.ret = "true"
    /\ verify(op.obj.bounds)
    /\ \E s \in SlotsOf(tree, op.obj.id) : Len(s.node) = 2
    /\ \E p \in DOMAIN tree : ~verify(tree[p].bounds)

\* After set_dimensions, width is right - left and height is bottom - top.
DimensionsDerived ==
    op.name = "set_dimensions"
        => /\ op.region.width = op.region.right - op.region.left
           /\ op.region.height = op.region.bottom - op.region.top

\* After set_center, x is (left + right) / 2 and y is (top + bottom) / 2 in
\* int arithmetic: the half of the sum, rounded toward zero.
CentreDerived ==
    op.name = "set_center"
        => LET b  == op.region
               sx == b.left + b.right
               sy == b.top + b.bottom
           IN  /\ IF sx % 2 = 0 THEN 2 * b.x = sx
                  ELSE IF sx > 0 THEN 2 * b.x = sx - 1 ELSE 2 * b.x = sx + 1
               /\ IF sy % 2 = 0 THEN 2 * b.y = sy
                  ELSE IF sy > 0 THEN 2 * b.y = sy - 1 ELSE 2 * b.y = sy + 1

\* C20: for every box with edges in a bounded integer range, set_dimensions
\* sets width to right - left and height to bottom - top, and set_center sets
\* x to (left + right) / 2 and y to (top + bottom) / 2.
C20_DerivedDimensions == DimensionsDerived /\ CentreDerived

====
